---- MODULE Spec2Model ----
(***************************************************************************)
(* The rule execution engine of monorepolint: check(), checkPackage() and  *)
(* shouldSkipPackage() of packages/core/src/check.ts.                      *)
(*                                                                         *)
(* check() is one async function; its synchronous stretches are atomic    *)
(* (single-threaded event loop) and the only suspension point is the      *)
(* await of a rule's check at line 177.  The collaborators (validators,   *)
(* rule checks, package discovery, the clock) are the environment: their  *)
(* answers are drawn nondeterministically where the code asks for them.   *)
(***************************************************************************)
EXTENDS Integers, Sequences, FiniteSets, TLC

\* ------------------------------------------------------------------ bounds
MaxRules == 2      \* longest resolvedConfig.rules
MaxPaths == 2      \* longest explicit paths argument
MaxPackages == 2   \* most package directories discovery returns
MaxClock == 1      \* last value process.hrtime.bigint() reaches

\* ------------------------------------------------- optional values (T | undefined)
Undefined == {}
Some(v) == {v}
Get(o) == CHOOSE v \in o : TRUE
\* o ?? d
OrElse(o, d) == IF o = Undefined THEN d ELSE Get(o)

\* ------------------------------------------------------ directories and paths
\* A directory is the sequence of its segments; a path argument is absolute
\* or relative to the process's working directory.
WorkspaceDir == <<"ws">>
PackageDir(k) == <<"ws", "pkg" \o ToString(k)>>
OutsideDir == <<"elsewhere">>
ManifestFile == "package.json"

AbsPath(segs) == [abs |-> TRUE, segs |-> segs]
RelPath(segs) == [abs |-> FALSE, segs |-> segs]

\* path.resolve(p): an absolute path is kept, a relative one is resolved
\* against process.cwd(), which is the default of the cwd argument (line 17).
pathResolve(p, processCwd) == IF p.abs THEN p.segs ELSE processCwd \o p.segs

\* path.dirname(p): the path without its last segment.
pathDirname(segs) == SubSeq(segs, 1, Len(segs) - 1)

\* The paths resolved but not reduced to their directory.
resolvedPaths_NoDirname(ps, processCwd) ==
  [i \in DOMAIN ps |-> pathResolve(ps[i], processCwd)]

\* paths.map((p) => pathDirname(pathResolve(p)))
resolvedPaths(ps, processCwd) ==
  [i \in DOMAIN ps |-> pathDirname(pathResolve(ps[i], processCwd))]

\* findWorkspaceDir(host, cwd): the enclosing workspace root, if any.
findWorkspaceDir(dir) == IF dir[1] = "ws" THEN Some(WorkspaceDir) ELSE Undefined

\* Context.getName(): the package name of the scope's directory.
getName(dir) == IF dir = WorkspaceDir THEN "root" ELSE dir[Len(dir)]

\* ------------------------------------------------------------------ globs
\* A pattern is a literal name or the wildcard "*".
globMatches(name, pattern) == pattern = "*" \/ pattern = name

\* matchesAnyGlob(name, patterns)
matchesAnyGlob(name, patterns) ==
  \E i \in DOMAIN patterns : globMatches(name, patterns[i])

\* ------------------------------------------------------------------ rules
\* ResolvedRule: name, includeWorkspaceRoot, excludePackages, includePackages
\* and printStats are optional fields or flags of the resolved rule.
ResolvedRule(name, iwr, excl, incl, ps) ==
  [name |-> name, includeWorkspaceRoot |-> iwr, excludePackages |-> excl,
   includePackages |-> incl, printStats |-> ps]

RuleNames == {Undefined, Some("unknown"), Some("ruleC")}
PatternLists == {Undefined, Some(<<"pkg1">>), Some(<<"root", "pkg2">>), Some(<<"*">>)}
PrintStatsRefs == {Undefined, Some("statsF")}

\* Every resolved rule over the field values above.
AllRules ==
  { ResolvedRule(n, w, e, i, p) :
      n \in RuleNames, w \in BOOLEAN, e \in PatternLists, i \in PatternLists,
      p \in PrintStatsRefs }

\* The rules a run's configuration is built from: an unnamed rule exempt from
\* the workspace root, a rule named "unknown" that excludes pkg1, and a named
\* rule restricted to the root and pkg2.
RulePool ==
  { ResolvedRule(Undefined, FALSE, Undefined, Undefined, Some("statsF")),
    ResolvedRule(Some("unknown"), TRUE, Some(<<"pkg1">>), Undefined, Some("statsF")),
    ResolvedRule(Some("ruleC"), TRUE, Undefined, Some(<<"root", "pkg2">>), Undefined) }

SeqsUpTo(S, n) == UNION { [1..k -> S] : k \in 0..n }

RuleLists == SeqsUpTo(RulePool, MaxRules)

\* The paths a caller passes: the root's manifest by its absolute path and
\* the manifest of the working directory by its relative path.
PathArgs ==
  { AbsPath(WorkspaceDir \o <<ManifestFile>>), RelPath(<<ManifestFile>>) }

CwdArgs == {WorkspaceDir, PackageDir(1), OutsideDir}

\* getWorkspacePackageDirs(): the first k package directories, in order.
PackageDirLists == { [i \in 1..k |-> PackageDir(i)] : k \in 0..MaxPackages }

\* ------------------------------------------------------- shouldSkipPackage
\* The process-wide counters and the clock that shouldSkipPackage reads and
\* writes, as one record: excludesCost, includesCost (lines 197-198), the
\* number of matchesAnyGlob calls made so far, and the clock.
GlobEnv(ec, ic, gc, t) ==
  [excludesCost |-> ec, includesCost |-> ic, globCalls |-> gc, now |-> t]

\* The exemption with the negation of includeWorkspaceRoot lost.
isExemptWorkspaceRoot_NoNegation(context, ruleConfig) ==
  ruleConfig.includeWorkspaceRoot /\ context.workspace = context.id

\* !ruleConfig.includeWorkspaceRoot && context.getWorkspaceContext() === context
isExemptWorkspaceRoot(context, ruleConfig) ==
  ~ruleConfig.includeWorkspaceRoot /\ context.workspace = context.id

\* The exclude test matching against includePackages instead.
excludeOf_WrongList(context, ruleConfig) ==
  IF ruleConfig.includePackages # Undefined
    THEN matchesAnyGlob(getName(context.dir), Get(ruleConfig.includePackages))
    ELSE FALSE

\* ruleConfig.excludePackages !== undefined ? matchesAnyGlob(...) : false
excludeOf(context, ruleConfig) ==
  IF ruleConfig.excludePackages # Undefined
    THEN matchesAnyGlob(getName(context.dir), Get(ruleConfig.excludePackages))
    ELSE FALSE

\* The include test with an absent list meaning "include nothing".
includeOf_AbsentIsNone(context, ruleConfig) ==
  IF ruleConfig.includePackages = Undefined
    THEN FALSE
    ELSE matchesAnyGlob(getName(context.dir), Get(ruleConfig.includePackages))

\* ruleConfig.includePackages === undefined ? true : matchesAnyGlob(...)
includeOf(context, ruleConfig) ==
  IF ruleConfig.includePackages = Undefined
    THEN TRUE
    ELSE matchesAnyGlob(getName(context.dir), Get(ruleConfig.includePackages))

\* shouldSkipPackage(context, ruleConfig) run from the counters and clock env;
\* d1 and d2 are the time the exclude and the include glob evaluation take
\* when they are made.  The value is the returned boolean with the counters
\* and clock it leaves behind.
shouldSkipPackage(context, ruleConfig, env, d1, d2) ==
  IF isExemptWorkspaceRoot(context, ruleConfig)
    THEN [result |-> TRUE, env |-> env]
    ELSE
      LET callsExclude == ruleConfig.excludePackages # Undefined
          t215 == env.now
          t218 == IF callsExclude THEN t215 + d1 ELSE t215
          exclude == excludeOf(context, ruleConfig)
          env1 == GlobEnv((env.excludesCost - t215) + t218, env.includesCost,
                          env.globCalls + (IF callsExclude THEN 1 ELSE 0), t218)
          callsInclude == ruleConfig.includePackages # Undefined
          t222 == t218
          t225 == IF callsInclude THEN t222 + d2 ELSE t222
          include == includeOf(context, ruleConfig)
          env2 == GlobEnv(env1.excludesCost, (env1.includesCost - t222) + t225,
                          env1.globCalls + (IF callsInclude THEN 1 ELSE 0), t225)
      IN  IF exclude THEN [result |-> TRUE, env |-> env1]
          ELSE IF ~include THEN [result |-> TRUE, env |-> env2]
          ELSE [result |-> FALSE, env |-> env2]

\* ------------------------------------------------------------------ state
VARIABLES
  rules,          \* resolvedConfig.rules
  cwd,            \* the cwd argument
  paths,          \* the paths argument, Undefined when omitted
  reportStats,    \* the reportStats argument, Undefined until line 67 reads it
  pc,             \* where check() stands
  workspaceDir,   \* const workspaceDir (line 22)
  contexts,       \* the Context objects; contexts[1] is workspaceContext
  vi,             \* rules validated so far by the loop of lines 31-33
  stats,          \* stats.perRule: rule name -> {name, totalTime, executions}
  packagesChecked,
  branch,         \* the arm of the if at lines 41, 53, 61 that runs
  targets,        \* the list the for loop iterates (lines 44, 57), once computed
  ti,             \* elements of targets the loop has taken
  cur,            \* the context checkPackage runs on, 0 outside checkPackage
  ri,             \* rules checkPackage has gone past in its for loop
  inflight,       \* rule check promises invoked and not yet settled
  awaited,        \* state of the promise checkPackage awaits (line 177)
  timed,          \* the bucket as it was before the invocation being timed
  excludesCost, includesCost, globCalls,
  now,            \* process.hrtime.bigint()
  lastSkip,       \* what the last shouldSkipPackage call returned
  log,            \* history of the calls made, in order
  printed,        \* printStats hooks invoked by the report, in order
  result          \* what check() returned, Undefined before

vars == <<rules, cwd, paths, reportStats, pc, workspaceDir, contexts, vi, stats,
          packagesChecked, branch, targets, ti, cur, ri, inflight, awaited, timed, excludesCost,
          includesCost, globCalls, now, lastSkip, log, printed, result>>

inputs == <<rules, cwd, paths>>
globVars == <<excludesCost, includesCost, globCalls, lastSkip>>
loopVars == <<branch, targets, ti>>
pkgVars == <<cur, ri, inflight, awaited, timed>>

EmptyMap == [n \in {} |-> 0]

\* new Context: contexts[id]; its workspace is the id of its WorkspaceContext.
\* failed is the object's failed flag; marked records that a rule check
\* recorded a failure against this very scope; finished counts finish() calls.
Context(id, dir, ws) ==
  [id |-> id, dir |-> dir, workspace |-> ws, failed |-> FALSE,
   marked |-> FALSE, finished |-> 0]

\* One call made by check(): ev names it, pos is the number of the
\* checkPackage call it belongs to (0 outside), ctx the context object and
\* rule the position of the rule in resolvedConfig.rules (0 when none).
Event(ev, pos, ctx, rule) == [ev |-> ev, pos |-> pos, ctx |-> ctx, rule |-> rule]

Call(pos, ctx, rule) == [pos |-> pos, ctx |-> ctx, rule |-> rule]
NoCall == Call(0, 0, 0)
Awaited(call, state) == [call |-> call, state |-> state]

\* The time a collaborator call may take: the clock stops at MaxClock.
Ticks(t) == { d \in {0, 1} : t + d <= MaxClock }

PathLists == SeqsUpTo(PathArgs, MaxPaths)

Init ==
  /\ rules \in RuleLists
  /\ cwd \in CwdArgs
  /\ paths \in {Undefined} \cup { Some(ps) : ps \in PathLists }
  /\ reportStats = Undefined
  /\ pc = "start"
  /\ workspaceDir = Undefined
  /\ contexts = <<>>
  /\ vi = 0
  /\ stats = EmptyMap
  /\ packagesChecked = 0
  /\ branch = "none"
  /\ targets = Undefined
  /\ ti = 0
  /\ cur = 0
  /\ ri = 0
  /\ inflight = {}
  /\ awaited = Awaited(NoCall, "none")
  /\ timed = Undefined
  /\ excludesCost = 0
  /\ includesCost = 0
  /\ globCalls = 0
  /\ now = 0
  /\ lastSkip = Undefined
  /\ log = <<>>
  /\ printed = <<>>
  /\ result = Undefined

\* ------------------------------------------------------- check(): lines 21-39
\* findWorkspaceDir returns undefined: check() throws (lines 23-25).
NoWorkspace ==
  /\ pc = "start"
  /\ findWorkspaceDir(cwd) = Undefined
  /\ pc' = "rejected"
  /\ UNCHANGED <<inputs, reportStats, workspaceDir, contexts, vi, stats, packagesChecked,
                 loopVars, pkgVars, globVars, now, log, printed, result>>

\* Lines 22-27: the workspace is found and workspaceContext is constructed.
Construct ==
  /\ pc = "start"
  /\ findWorkspaceDir(cwd) # Undefined
  /\ workspaceDir' = findWorkspaceDir(cwd)
  /\ contexts' = <<Context(1, Get(findWorkspaceDir(cwd)), 1)>>
  /\ pc' = "validate"
  /\ UNCHANGED <<inputs, reportStats, vi, stats, packagesChecked, loopVars, pkgVars,
                 globVars, now, log, printed, result>>

\* Line 32: ruleConfig.optionsRuntype.check(ruleConfig.options) passes.
ValidateRule ==
  /\ pc = "validate"
  /\ vi < Len(rules)
  /\ vi' = vi + 1
  /\ log' = Append(log, Event("validate", 0, 0, vi + 1))
  /\ UNCHANGED <<inputs, reportStats, pc, workspaceDir, contexts, stats, packagesChecked,
                 loopVars, pkgVars, globVars, now, printed, result>>

\* The validator's exception caught and dropped: validation goes on.
ValidateThrows_Swallowed ==
  /\ pc = "validate"
  /\ vi < Len(rules)
  /\ vi' = vi + 1
  /\ log' = Append(log, Event("validateThrew", 0, 0, vi + 1))
  /\ UNCHANGED <<inputs, reportStats, pc, workspaceDir, contexts, stats,
                 packagesChecked, loopVars, pkgVars, globVars, now, printed,
                 result>>

\* Line 32: the validator throws; the exception leaves check().
ValidateThrows ==
  /\ pc = "validate"
  /\ vi < Len(rules)
  /\ log' = Append(log, Event("validateThrew", 0, 0, vi + 1))
  /\ pc' = "rejected"
  /\ UNCHANGED <<inputs, reportStats, workspaceDir, contexts, vi, stats, packagesChecked,
                 loopVars, pkgVars, globVars, now, printed, result>>

\* ------------------------------------------------ the Context collaborator
\* workspaceContext.createChildContext(dir): a new Context object.
createChildContext(ctxs, dir) == Append(ctxs, Context(Len(ctxs) + 1, dir, 1))

\* A rule's check records a failure in the scope it was given.
markFailed(ctxs, id) == [ctxs EXCEPT ![id].failed = TRUE, ![id].marked = TRUE]

\* context.finish(): seals the scope and flushes its failure into the
\* owning WorkspaceContext.
finish(ctxs, id) ==
  [ctxs EXCEPT ![id].finished = @ + 1,
               ![ctxs[id].workspace].failed = @ \/ ctxs[id].failed]

\* ------------------------------------------------------ stats (lines 160-167)
\* ruleConfig.name ?? "unknown"
ruleNameOf(ruleConfig) == OrElse(ruleConfig.name, "unknown")

\* The lookup always starting a fresh bucket.
bucketOf_AlwaysFresh(perRule, ruleName) ==
  [name |-> ruleName, totalTime |-> 0, executions |-> 0]

\* stats.perRule.get(ruleName) ?? { totalTime: 0, executions: 0, name }
bucketOf(perRule, ruleName) ==
  IF ruleName \in DOMAIN perRule
    THEN perRule[ruleName]
    ELSE [name |-> ruleName, totalTime |-> 0, executions |-> 0]

\* stats.perRule.set(name, data)
setBucket(perRule, ruleName, data) ==
  [n \in DOMAIN perRule \cup {ruleName} |->
     IF n = ruleName THEN data ELSE perRule[n]]

\* The bucket stored and timed, with executions++ left out.
startTiming_NotCounted(perRule, ruleName, t) ==
  setBucket(perRule, ruleName,
    [bucketOf(perRule, ruleName) EXCEPT !.totalTime = @ - t])

\* Lines 161-168: the bucket after executions++ and totalTime -= hrtime.
startTiming(perRule, ruleName, t) ==
  setBucket(perRule, ruleName,
    [bucketOf(perRule, ruleName) EXCEPT !.executions = @ + 1,
                                        !.totalTime = @ - t])

\* The end of timing left out: the end timestamp is never added.
endTiming_NotAdded(perRule, ruleName, t) == perRule

\* Lines 171, 178: data.totalTime += hrtime.
endTiming(perRule, ruleName, t) ==
  [perRule EXCEPT ![ruleName].totalTime = @ + t]

\* ------------------------------------------------- check(): lines 41-65
\* checkPackage validating the options of every rule again on entry.
EnterPackage_Revalidates(ctxs, id) ==
  /\ packagesChecked' = packagesChecked + 1
  /\ contexts' = ctxs
  /\ cur' = id
  /\ ri' = 0
  /\ pc' = "rule"
  /\ log' = log \o [r \in DOMAIN rules |-> Event("validate", 0, 0, r)]
                \o <<Event("checkPackage", packagesChecked + 1, id, 0)>>

\* Entering checkPackage(context, stats) with packagesChecked++ before it.
EnterPackage(ctxs, id) ==
  /\ packagesChecked' = packagesChecked + 1
  /\ contexts' = ctxs
  /\ cur' = id
  /\ ri' = 0
  /\ pc' = "rule"
  /\ log' = Append(log, Event("checkPackage", packagesChecked + 1, id, 0))

\* The test of line 41 taking an empty paths for an omitted one: the run
\* goes on to check cwd.
BeginPaths_EmptyIsOmitted ==
  /\ pc = "validate" /\ vi = Len(rules)
  /\ paths # Undefined
  /\ IF Get(paths) = <<>>
       THEN /\ branch' = "single"
            /\ EnterPackage(createChildContext(contexts, cwd), Len(contexts) + 1)
            /\ UNCHANGED <<targets, ti>>
       ELSE /\ branch' = "paths"
            /\ targets' = Some(resolvedPaths(Get(paths), cwd))
            /\ ti' = 0
            /\ pc' = "loop"
            /\ UNCHANGED <<contexts, packagesChecked, cur, ri, log>>
  /\ UNCHANGED <<inputs, reportStats, workspaceDir, vi, stats, inflight, awaited,
                 timed, globVars, now, printed, result>>

\* Lines 34-42: validation is over, paths is given: resolvedPaths is computed.
BeginPaths ==
  /\ pc = "validate" /\ vi = Len(rules)
  /\ paths # Undefined
  /\ branch' = "paths"
  /\ targets' = Some(resolvedPaths(Get(paths), cwd))
  /\ ti' = 0
  /\ pc' = "loop"
  /\ UNCHANGED <<inputs, reportStats, workspaceDir, contexts, vi, stats, packagesChecked,
                 pkgVars, globVars, now, log, printed, result>>

\* Lines 45-47: the path is the workspace root: checkPackage(workspaceContext).
CheckPathRoot ==
  /\ pc = "loop" /\ branch = "paths"
  /\ ti < Len(Get(targets))
  /\ workspaceDir = Some(Get(targets)[ti + 1])
  /\ ti' = ti + 1
  /\ EnterPackage(contexts, 1)
  /\ UNCHANGED <<timed, inputs, reportStats, workspaceDir, vi, stats, branch, targets, inflight,
                 awaited, globVars, now, printed, result>>

\* Lines 48-50: any other path: checkPackage(createChildContext(path)).
CheckPathChild ==
  /\ pc = "loop" /\ branch = "paths"
  /\ ti < Len(Get(targets))
  /\ workspaceDir # Some(Get(targets)[ti + 1])
  /\ ti' = ti + 1
  /\ EnterPackage(createChildContext(contexts, Get(targets)[ti + 1]),
                  Len(contexts) + 1)
  /\ UNCHANGED <<timed, inputs, reportStats, workspaceDir, vi, stats, branch, targets, inflight,
                 awaited, globVars, now, printed, result>>

\* The full-workspace run going to the package directories at once.
CheckWorkspaceRoot_RootLeftOut ==
  /\ pc = "validate" /\ vi = Len(rules)
  /\ paths = Undefined
  /\ workspaceDir = Some(cwd)
  /\ branch' = "workspace"
  /\ pc' = "loop"
  /\ UNCHANGED <<inputs, reportStats, workspaceDir, contexts, vi, stats,
                 packagesChecked, targets, ti, pkgVars, globVars, now, log,
                 printed, result>>

\* Lines 53-55: no paths, cwd is the workspace root: the root is checked first.
CheckWorkspaceRoot ==
  /\ pc = "validate" /\ vi = Len(rules)
  /\ paths = Undefined
  /\ workspaceDir = Some(cwd)
  /\ branch' = "workspace"
  /\ EnterPackage(contexts, 1)
  /\ UNCHANGED <<timed, inputs, reportStats, workspaceDir, vi, stats, targets, ti, inflight,
                 awaited, globVars, now, printed, result>>

\* Line 57: getWorkspacePackageDirs() is called once the root is checked.
DiscoverPackages ==
  /\ pc = "loop" /\ branch = "workspace"
  /\ targets = Undefined
  /\ \E dirs \in PackageDirLists : targets' = Some(dirs)
  /\ ti' = 0
  /\ UNCHANGED <<inputs, reportStats, pc, workspaceDir, contexts, vi, stats, packagesChecked,
                 branch, pkgVars, globVars, now, log, printed, result>>

\* Lines 57-59: the next discovered package directory is checked.
CheckWorkspacePackage ==
  /\ pc = "loop" /\ branch = "workspace"
  /\ targets # Undefined
  /\ ti < Len(Get(targets))
  /\ ti' = ti + 1
  /\ EnterPackage(createChildContext(contexts, Get(targets)[ti + 1]),
                  Len(contexts) + 1)
  /\ UNCHANGED <<timed, inputs, reportStats, workspaceDir, vi, stats, branch, targets, inflight,
                 awaited, globVars, now, printed, result>>

\* The single-package run checking workspaceContext instead of cwd.
CheckCwd_ChecksRoot ==
  /\ pc = "validate" /\ vi = Len(rules)
  /\ paths = Undefined
  /\ workspaceDir # Some(cwd)
  /\ branch' = "single"
  /\ EnterPackage(contexts, 1)
  /\ UNCHANGED <<timed, inputs, reportStats, workspaceDir, vi, stats, targets, ti, inflight,
                 awaited, globVars, now, printed, result>>

\* Lines 61-63: no paths, cwd is not the workspace root: cwd alone is checked.
CheckCwd ==
  /\ pc = "validate" /\ vi = Len(rules)
  /\ paths = Undefined
  /\ workspaceDir # Some(cwd)
  /\ branch' = "single"
  /\ EnterPackage(createChildContext(contexts, cwd), Len(contexts) + 1)
  /\ UNCHANGED <<timed, inputs, reportStats, workspaceDir, vi, stats, targets, ti, inflight,
                 awaited, globVars, now, printed, result>>

\* Line 65: the arm of the if is over.
EndTargets ==
  /\ pc = "loop"
  /\ \/ branch = "single"
     \/ branch \in {"paths", "workspace"} /\ targets # Undefined
          /\ ti = Len(Get(targets))
  /\ pc' = "report"
  /\ UNCHANGED <<inputs, reportStats, workspaceDir, contexts, vi, stats, packagesChecked,
                 loopVars, pkgVars, globVars, now, log, printed, result>>

\* ------------------------------------------------ checkPackage: lines 159-181
\* The loop of line 159 taking the rules from last to first.
nextRule_Reversed(rs, done) == Len(rs) - done

\* for (const ruleConfig of context.resolvedConfig.rules): the position of
\* the rule the loop takes after it went past `done` rules.
nextRule(rs, done) == done + 1

CurEnv == GlobEnv(excludesCost, includesCost, globCalls, now)

SetEnv(env) ==
  /\ excludesCost' = env.excludesCost
  /\ includesCost' = env.includesCost
  /\ globCalls' = env.globCalls
  /\ now' = env.now

\* Lines 159-173: the next rule is skipped for this context.
RuleSkipped ==
  /\ pc = "rule"
  /\ ri < Len(rules)
  /\ \E d1 \in Ticks(now) : \E d2 \in Ticks(now + d1) :
       LET ruleConfig == rules[nextRule(rules, ri)]
           ruleName == ruleNameOf(ruleConfig)
           skip == shouldSkipPackage(contexts[cur], ruleConfig, CurEnv, d1, d2)
       IN  /\ skip.result
           /\ stats' = endTiming(startTiming(stats, ruleName, now), ruleName,
                                 skip.env.now)
           /\ SetEnv(skip.env)
           /\ lastSkip' = Some(skip.result)
  /\ ri' = ri + 1
  /\ log' = Append(log, Event("skip", packagesChecked, cur, nextRule(rules, ri)))
  /\ UNCHANGED <<timed, inputs, reportStats, pc, workspaceDir, contexts, vi, packagesChecked,
                 loopVars, cur, inflight, awaited, printed, result>>

\* Lines 159-170 and 177: the next rule is not skipped; its check is invoked
\* and checkPackage suspends on the promise.
RuleInvoked ==
  /\ pc = "rule"
  /\ ri < Len(rules)
  /\ \E d1 \in Ticks(now) : \E d2 \in Ticks(now + d1) :
       LET ruleConfig == rules[nextRule(rules, ri)]
           skip == shouldSkipPackage(contexts[cur], ruleConfig, CurEnv, d1, d2)
       IN  /\ ~skip.result
           /\ stats' = startTiming(stats, ruleNameOf(ruleConfig), now)
           /\ SetEnv(skip.env)
           /\ lastSkip' = Some(skip.result)
  /\ timed' = Some(bucketOf(stats, ruleNameOf(rules[nextRule(rules, ri)])))
  /\ inflight' = inflight \cup {Call(packagesChecked, cur, nextRule(rules, ri))}
  /\ awaited' = Awaited(Call(packagesChecked, cur, nextRule(rules, ri)), "pending")
  /\ pc' = "await"
  /\ log' = Append(log, Event("call", packagesChecked, cur, nextRule(rules, ri)))
  /\ UNCHANGED <<inputs, reportStats, workspaceDir, contexts, vi, packagesChecked,
                 loopVars, cur, ri, printed, result>>

\* What settling the call c with the given outcome makes of the awaited promise.
settle(a, c, outcome) ==
  IF a.call = c /\ a.state = "pending"
    THEN Awaited(c, IF outcome = "throw" THEN "rejected" ELSE "fulfilled")
    ELSE a

\* The promise of a rule check settles: the check passed, recorded a failure
\* in its context, or threw.
CheckSettles ==
  /\ \E c \in inflight : \E outcome \in {"pass", "fail", "throw"} :
       /\ inflight' = inflight \ {c}
       /\ contexts' = IF outcome = "fail" THEN markFailed(contexts, c.ctx)
                      ELSE contexts
       /\ awaited' = settle(awaited, c, outcome)
       /\ log' = Append(log, Event("settle", c.pos, c.ctx, c.rule))
  /\ \E d \in Ticks(now) : now' = now + d
  /\ UNCHANGED <<timed, inputs, reportStats, pc, workspaceDir, vi, stats, packagesChecked,
                 loopVars, cur, ri, globVars, printed, result>>

\* The call made without await: the continuation runs at once.
awaitOver_NotAwaited(a) == TRUE

\* await: the continuation runs once the awaited promise is settled.
awaitOver(a) == a.state # "pending"

\* Lines 177-178: the awaited check resolved; timing ends, the loop goes on.
CheckResumes ==
  /\ pc = "await"
  /\ awaitOver(awaited)
  /\ awaited.state # "rejected"
  /\ stats' = endTiming(stats, ruleNameOf(rules[nextRule(rules, ri)]), now)
  /\ ri' = ri + 1
  /\ awaited' = Awaited(NoCall, "none")
  /\ timed' = Undefined
  /\ pc' = "rule"
  /\ UNCHANGED <<inputs, reportStats, workspaceDir, contexts, vi, packagesChecked,
                 loopVars, cur, inflight, globVars, now, log, printed, result>>

\* The rejection caught and dropped: the loop goes on with the next rule.
CheckRejects_Swallowed ==
  /\ pc = "await"
  /\ awaitOver(awaited)
  /\ awaited.state = "rejected"
  /\ ri' = ri + 1
  /\ pc' = "rule"
  /\ UNCHANGED <<timed, inputs, reportStats, workspaceDir, contexts, vi, stats,
                 packagesChecked, loopVars, cur, inflight, awaited, globVars,
                 now, log, printed, result>>

\* Line 177: the awaited check rejected; the exception leaves checkPackage
\* and check(), which has no try around either.
CheckRejects ==
  /\ pc = "await"
  /\ awaitOver(awaited)
  /\ awaited.state = "rejected"
  /\ pc' = "rejected"
  /\ UNCHANGED <<inputs, reportStats, workspaceDir, contexts, vi, stats, packagesChecked,
                 loopVars, pkgVars, globVars, now, log, printed, result>>

\* The loop of line 159 left as soon as the scope has a failure recorded.
Finish_StopsAtFailure ==
  /\ pc = "rule"
  /\ ri = Len(rules) \/ contexts[cur].failed
  /\ contexts' = finish(contexts, cur)
  /\ log' = Append(log, Event("finish", packagesChecked, cur, 0))
  /\ cur' = 0
  /\ ri' = Len(rules)
  /\ pc' = "loop"
  /\ UNCHANGED <<timed, inputs, reportStats, workspaceDir, vi, stats, packagesChecked,
                 loopVars, inflight, awaited, globVars, now, printed, result>>

\* Line 180: every rule is processed; context.finish(), and checkPackage returns.
Finish ==
  /\ pc = "rule"
  /\ ri = Len(rules)
  /\ contexts' = finish(contexts, cur)
  /\ log' = Append(log, Event("finish", packagesChecked, cur, 0))
  /\ cur' = 0
  /\ pc' = "loop"
  /\ UNCHANGED <<timed, inputs, reportStats, workspaceDir, vi, stats, packagesChecked,
                 loopVars, ri, inflight, awaited, globVars, now, printed, result>>

\* ------------------------------------------------- check(): lines 67-146
\* The loop of lines 138-143 without the executed set: one call per rule.
RECURSIVE printStatsCalls_PerRule(_, _, _)
printStatsCalls_PerRule(rs, i, executed) ==
  IF i > Len(rs) THEN <<>>
  ELSE IF rs[i].printStats # Undefined
    THEN <<Get(rs[i].printStats)>> \o printStatsCalls_PerRule(rs, i + 1, executed)
    ELSE printStatsCalls_PerRule(rs, i + 1, executed)

\* Lines 137-143: the hooks the loop invokes, given those already executed.
RECURSIVE printStatsCalls(_, _, _)
printStatsCalls(rs, i, executed) ==
  IF i > Len(rs) THEN <<>>
  ELSE IF rs[i].printStats # Undefined /\ Get(rs[i].printStats) \notin executed
    THEN <<Get(rs[i].printStats)>>
           \o printStatsCalls(rs, i + 1, executed \cup {Get(rs[i].printStats)})
    ELSE printStatsCalls(rs, i + 1, executed)

\* Lines 67-144: reportStats is set; the tables are printed and the
\* printStats hooks invoked.  The argument is read here for the first time,
\* so its value is drawn here.
Report ==
  /\ pc = "report"
  /\ reportStats' = Some(TRUE)
  /\ printed' = printStatsCalls(rules, 1, {})
  /\ pc' = "return"
  /\ UNCHANGED <<inputs, workspaceDir, contexts, vi, stats, packagesChecked,
                 loopVars, pkgVars, globVars, now, log, result>>

\* The return value with the negation lost.
returnValue_NoNegation(workspaceContext) == workspaceContext.failed

\* Line 146: !workspaceContext.failed
returnValue(workspaceContext) == ~workspaceContext.failed

\* Line 67: reportStats is falsy; the report is passed over.
NoReport ==
  /\ pc = "report"
  /\ reportStats' = Some(FALSE)
  /\ pc' = "return"
  /\ UNCHANGED <<inputs, workspaceDir, contexts, vi, stats, packagesChecked,
                 loopVars, pkgVars, globVars, now, log, printed, result>>

\* Line 146: check() returns.
Return ==
  /\ pc = "return"
  /\ result' = Some(returnValue(contexts[1]))
  /\ pc' = "done"
  /\ UNCHANGED <<inputs, reportStats, workspaceDir, contexts, vi, stats, packagesChecked,
                 loopVars, pkgVars, globVars, now, log, printed>>

Next ==
  \/ NoWorkspace \/ Construct \/ ValidateRule \/ ValidateThrows
  \/ BeginPaths \/ CheckPathRoot \/ CheckPathChild
  \/ CheckWorkspaceRoot \/ DiscoverPackages \/ CheckWorkspacePackage
  \/ CheckCwd \/ EndTargets
  \/ RuleSkipped \/ RuleInvoked \/ CheckSettles \/ CheckResumes \/ CheckRejects
  \/ Finish \/ Report \/ NoReport \/ Return

Spec == Init /\ [][Next]_vars

\* The run with every continuation of check() run by the event loop when
\* it is ready, and every invoked rule check settling in the end.
LiveSpec ==
  /\ Init /\ [][Next]_vars
  /\ WF_vars(NoWorkspace \/ Construct \/ ValidateRule \/ ValidateThrows
              \/ BeginPaths \/ CheckPathRoot \/ CheckPathChild
              \/ CheckWorkspaceRoot \/ DiscoverPackages
              \/ CheckWorkspacePackage \/ CheckCwd \/ EndTargets
              \/ RuleSkipped \/ RuleInvoked \/ CheckResumes \/ CheckRejects
              \/ Finish \/ Report \/ NoReport \/ Return)
  /\ WF_vars(CheckSettles)

\* ------------------------------------------- shouldSkipPackage on its own
\* One call of the exported shouldSkipPackage(context, ruleConfig): any
\* resolved rule, the workspace context or a package's context, any value
\* of the counters and the clock.
SkipInit ==
  /\ rules \in { <<r>> : r \in AllRules }
  /\ contexts = <<Context(1, WorkspaceDir, 1)>>
                  \o [k \in 1..MaxPackages |-> Context(k + 1, PackageDir(k), 1)]
  /\ cur \in 1..(MaxPackages + 1)
  /\ excludesCost \in 0..MaxClock
  /\ includesCost \in 0..MaxClock
  /\ now \in 0..MaxClock
  /\ globCalls = 0
  /\ lastSkip = Undefined
  /\ pc = "skip"
  /\ cwd = WorkspaceDir
  /\ paths = Undefined
  /\ reportStats = Undefined
  /\ workspaceDir = Some(WorkspaceDir)
  /\ vi = 0
  /\ stats = EmptyMap
  /\ packagesChecked = 0
  /\ branch = "none"
  /\ targets = Undefined
  /\ ti = 0
  /\ ri = 0
  /\ inflight = {}
  /\ awaited = Awaited(NoCall, "none")
  /\ timed = Undefined
  /\ log = <<>>
  /\ printed = <<>>
  /\ result = Undefined

\* Lines 206-230: the call runs and returns.
SkipCall ==
  /\ pc = "skip"
  /\ \E d1 \in Ticks(now) : \E d2 \in Ticks(now + d1) :
       LET skip == shouldSkipPackage(contexts[cur], rules[1], CurEnv, d1, d2)
       IN  /\ SetEnv(skip.env)
           /\ lastSkip' = Some(skip.result)
  /\ pc' = "skipped"
  /\ UNCHANGED <<timed, inputs, reportStats, workspaceDir, contexts, vi, stats,
                 packagesChecked, loopVars, cur, ri, inflight, awaited, log,
                 printed, result>>

SkipNext == SkipCall

SkipSpec == SkipInit /\ [][SkipNext]_vars

\* ------------------------------------------------- the report on its own
\* The rules the report is run over: every name with no hook, the hook
\* statsF or the hook statsG, so that rules share a hook or differ in it.
ReportRules ==
  { ResolvedRule(n, TRUE, Undefined, Undefined, p) :
      n \in RuleNames, p \in PrintStatsRefs \cup {Some("statsG")} }

\* check() at line 65, the loops over: only the report and the return are
\* left.  Whether a checked scope has failed is open.
ReportInit ==
  /\ rules \in SeqsUpTo(ReportRules, MaxRules)
  /\ \E f \in BOOLEAN :
       contexts = <<[Context(1, WorkspaceDir, 1) EXCEPT !.failed = f]>>
  /\ pc = "report"
  /\ cwd = PackageDir(1)
  /\ paths = Some(<<>>)
  /\ reportStats = Undefined
  /\ workspaceDir = Some(WorkspaceDir)
  /\ vi = Len(rules)
  /\ stats = EmptyMap
  /\ packagesChecked = 0
  /\ branch = "paths"
  /\ targets = Some(<<>>)
  /\ ti = 0
  /\ cur = 0
  /\ ri = 0
  /\ inflight = {}
  /\ awaited = Awaited(NoCall, "none")
  /\ timed = Undefined
  /\ excludesCost = 0
  /\ includesCost = 0
  /\ globCalls = 0
  /\ now = 0
  /\ lastSkip = Undefined
  /\ log = [r \in DOMAIN rules |-> Event("validate", 0, 0, r)]
  /\ printed = <<>>
  /\ result = Undefined

ReportNext == Report \/ NoReport \/ Return

ReportSpec == ReportInit /\ [][ReportNext]_vars

\* ================================================================== claims
IsWorkspaceScope(context) == context.workspace = context.id

\* The log is only ever appended to, so every event of a run is the last
\* event of some reachable state: a statement about the last event and the
\* events before it, true in every reachable state, is true of every event.
LastEvent == log[Len(log)]

EventsOf(kinds) == { i \in DOMAIN log : log[i].ev \in kinds }

\* The checkPackage calls made so far, in order.
PackageCalls == SelectSeq(log, LAMBDA e : e.ev = "checkPackage")

\* How often rule r was taken up (skipped or checked) by checkPackage call p.
Considered(p, r) ==
  Cardinality({ i \in EventsOf({"skip", "call"}) :
                  log[i].pos = p /\ log[i].rule = r })

Returned == pc = "done"

\* C1: within one checkPackage call the rule checks are invoked in the
\* declared order: a check invoked after another one of the same call
\* belongs to a rule further down resolvedConfig.rules.
C1_ChecksInDeclaredOrder ==
  (log # <<>> /\ LastEvent.ev = "call") =>
    \A i \in EventsOf({"call"}) :
      (i < Len(log) /\ log[i].pos = LastEvent.pos) => log[i].rule < LastEvent.rule

\* C1 happens: the second of two checks of one scope was invoked.
C1_Witness ==
  /\ log # <<>> /\ LastEvent.ev = "call"
  /\ \E i \in EventsOf({"call"}) :
       /\ i < Len(log) /\ log[i].pos = LastEvent.pos
       /\ rules[log[i].rule] # rules[LastEvent.rule]

\* C2: no two rule checks are ever in flight together; when a check is
\* invoked it is the only one in flight, every check invoked before it has
\* settled, and every earlier checkPackage call has gone past all its rules
\* and called finish().
C2_OneCheckInFlight ==
  /\ Cardinality(inflight) <= 1
  /\ (log # <<>> /\ LastEvent.ev = "call") =>
       /\ inflight = {Call(LastEvent.pos, LastEvent.ctx, LastEvent.rule)}
       /\ Cardinality(EventsOf({"call"})) = Cardinality(EventsOf({"settle"})) + 1
       /\ \A p \in 1..(LastEvent.pos - 1) :
            /\ \E j \in EventsOf({"finish"}) : log[j].pos = p
            /\ \A r \in DOMAIN rules :
                 \E j \in EventsOf({"skip", "settle"}) :
                   log[j].pos = p /\ log[j].rule = r

\* C2 happens: the first check of a second scope is invoked after checks of
\* the first scope ran.
C2_Witness ==
  /\ log # <<>> /\ LastEvent.ev = "call" /\ LastEvent.pos = 2
  /\ \E i \in EventsOf({"settle"}) : log[i].pos = 1

\* C3: when check() returns, the value is the negation of
\* workspaceContext.failed, and it is true exactly when no rule check
\* recorded a failure in any scope.
C3_ReturnsNoScopeFailed ==
  Returned =>
    /\ result = Some(~contexts[1].failed)
    /\ (result = Some(TRUE)) <=> (\A c \in DOMAIN contexts : ~contexts[c].marked)

\* C3 happens: check() returned false because of a failure recorded in a
\* package scope only.
C3_Witness ==
  /\ Returned /\ result = Some(FALSE)
  /\ ~contexts[1].marked
  /\ Len(PackageCalls) > 1

RECURSIVE SumExecutions(_, _)
SumExecutions(perRule, names) ==
  IF names = {} THEN 0
  ELSE LET n == CHOOSE x \in names : TRUE
       IN  perRule[n].executions + SumExecutions(perRule, names \ {n})

\* C7: after a run over N scopes with M rules that returns, the stats map
\* has at most M entries, its keys are the rules' names with "unknown" for
\* the unnamed ones, and the executions add up to N * M.
C7_ExecutionsAddUp ==
  Returned =>
    /\ Cardinality(DOMAIN stats) <= Len(rules)
    /\ DOMAIN stats \subseteq { ruleNameOf(rules[i]) : i \in DOMAIN rules }
    /\ SumExecutions(stats, DOMAIN stats) = Len(PackageCalls) * Len(rules)

\* C7 happens: a run over several scopes returned with rules sharing a
\* bucket and with skipped rules counted.
C7_Witness ==
  /\ Returned
  /\ Len(PackageCalls) >= 2 /\ Len(rules) >= 2
  /\ Cardinality(DOMAIN stats) < Len(rules)
  /\ EventsOf({"skip"}) # {}

\* C8: once a rule's options validator has thrown, check() is rejected and
\* no scope is ever processed: no checkPackage call, no rule taken up or
\* checked, no finish(), an empty stats map.
C8_BadOptionsFailFast ==
  EventsOf({"validateThrew"}) # {} =>
    /\ pc = "rejected"
    /\ result = Undefined
    /\ EventsOf({"checkPackage", "skip", "call", "settle", "finish"}) = {}
    /\ \A c \in DOMAIN contexts : contexts[c].finished = 0
    /\ DOMAIN stats = {}
    /\ packagesChecked = 0

\* C8 happens: the validator of the second rule threw after the first passed.
C8_Witness ==
  /\ pc = "rejected"
  /\ \E i \in EventsOf({"validateThrew"}) : log[i].rule = 2
  /\ paths # Undefined /\ Get(paths) # <<>>

\* The directory dir holds the path p (relative paths are taken from cwd).
Holds(dir, p) ==
  LET full == IF p.abs THEN p.segs ELSE cwd \o p.segs
  IN  full = Append(dir, full[Len(full)])

\* C9: with explicit paths, the k-th checkPackage call is for the directory
\* holding the k-th path: workspaceContext when that is the workspace root,
\* a context created by that call otherwise; every rule is taken up once by
\* each call, for the call's context; no context is created or checked but
\* these, and a run that returns has made one call per path.
C9_ExplicitPathsAreTheScopes ==
  paths # Undefined =>
    LET calls == PackageCalls
        n == Len(calls)
        e == LastEvent
    IN  /\ n <= Len(Get(paths))
        /\ Returned => n = Len(Get(paths))
        /\ contexts # <<>> =>
             Len(contexts) =
               1 + Cardinality({ k \in DOMAIN calls : calls[k].ctx # 1 })
        /\ log # <<>> =>
             /\ e.ev = "checkPackage" =>
                  /\ e.pos = n
                  /\ Holds(contexts[e.ctx].dir, Get(paths)[n])
                  /\ (e.ctx = 1) <=> (contexts[e.ctx].dir = Get(workspaceDir))
                  /\ e.ctx # 1 =>
                       /\ e.ctx = Len(contexts)
                       /\ \A j \in 1..(n - 1) : calls[j].ctx # e.ctx
             /\ e.ev \in {"skip", "call", "settle", "finish"} =>
                  e.pos = n /\ e.ctx = calls[n].ctx
             /\ e.ev \in {"skip", "call"} => Considered(n, e.rule) = 1
             /\ e.ev = "finish" =>
                  \A r \in DOMAIN rules : Considered(n, r) = 1

\* C9 happens: a run over a package's path followed by the root's returned
\* with rules checked in both, in a workspace root never checked first.
C9_Witness ==
  /\ Returned /\ paths # Undefined
  /\ Len(PackageCalls) = 2
  /\ PackageCalls[1].ctx = 2 /\ PackageCalls[2].ctx = 1
  /\ cwd # WorkspaceDir
  /\ \E i \in EventsOf({"call"}) : log[i].pos = 1
  /\ \E i \in EventsOf({"call"}) : log[i].pos = 2

\* C10: with paths omitted and cwd the workspace root, the first
\* checkPackage call is for workspaceContext and the (k+1)-th for a context
\* created for the k-th discovered package directory; a run over P
\* discovered directories that returns has made P + 1 calls.
C10_WholeWorkspace ==
  (paths = Undefined /\ workspaceDir = Some(cwd)) =>
    LET calls == PackageCalls
        n == Len(calls)
        e == LastEvent
    IN  /\ (log # <<>> /\ e.ev = "checkPackage") =>
             /\ e.pos = n
             /\ n = 1 => e.ctx = 1
             /\ n > 1 =>
                  /\ targets # Undefined /\ n - 1 <= Len(Get(targets))
                  /\ e.ctx = n /\ Len(contexts) = n
                  /\ contexts[n].dir = Get(targets)[n - 1]
                  /\ ~IsWorkspaceScope(contexts[n])
        /\ (log # <<>> /\ e.ev \in {"skip", "call", "settle", "finish"}) =>
             e.pos = n /\ e.ctx = n
        /\ Returned =>
             /\ targets # Undefined
             /\ n = Len(Get(targets)) + 1
             /\ Len(contexts) = Len(Get(targets)) + 1

\* C10 happens: a full run over a workspace of MaxPackages packages returned.
C10_Witness ==
  /\ Returned
  /\ paths = Undefined /\ workspaceDir = Some(cwd)
  /\ targets = Some([i \in 1..MaxPackages |-> PackageDir(i)])
  /\ Len(PackageCalls) = MaxPackages + 1

\* C4: for a rule with includeWorkspaceRoot falsy, shouldSkipPackage on the
\* workspace-root scope returns true without evaluating a glob: no
\* matchesAnyGlob call is made, includesCost and excludesCost keep their values.
C4_RootExemptWithoutGlobs ==
  [][ (pc = "skip" /\ IsWorkspaceScope(contexts[cur])
         /\ ~rules[1].includeWorkspaceRoot)
      => /\ lastSkip' = Some(TRUE)
         /\ globCalls' = globCalls
         /\ includesCost' = includesCost
         /\ excludesCost' = excludesCost ]_vars

\* C4 happens: a root-exempt rule carrying both glob lists was decided on the
\* workspace root.
C4_Witness ==
  /\ pc = "skipped"
  /\ IsWorkspaceScope(contexts[cur])
  /\ ~rules[1].includeWorkspaceRoot
  /\ rules[1].excludePackages # Undefined
  /\ rules[1].includePackages # Undefined
  /\ lastSkip = Some(TRUE)
  /\ excludesCost = MaxClock

\* C5: a rule whose excludePackages is defined and matches the scope's name
\* is skipped for that scope, whatever includePackages is.
C5_ExcludeWins ==
  [][ (pc = "skip" /\ rules[1].excludePackages # Undefined
         /\ matchesAnyGlob(getName(contexts[cur].dir),
                           Get(rules[1].excludePackages)))
      => lastSkip' = Some(TRUE) ]_vars

\* C5 happens: a package excluded by a rule whose includePackages matches it
\* too was decided.
C5_Witness ==
  /\ pc = "skipped"
  /\ ~IsWorkspaceScope(contexts[cur])
  /\ rules[1].excludePackages = Some(<<"pkg1">>)
  /\ rules[1].includePackages = Some(<<"*">>)
  /\ getName(contexts[cur].dir) = "pkg1"
  /\ lastSkip = Some(TRUE)

\* C6: with includePackages undefined, a scope that the workspace-root
\* exemption does not skip and excludePackages does not match is not skipped.
C6_NoIncludeListNeverSkips ==
  [][ (pc = "skip" /\ rules[1].includePackages = Undefined
         /\ ~(~rules[1].includeWorkspaceRoot /\ IsWorkspaceScope(contexts[cur]))
         /\ ~(rules[1].excludePackages # Undefined
                /\ matchesAnyGlob(getName(contexts[cur].dir),
                                  Get(rules[1].excludePackages))))
      => lastSkip' = Some(FALSE) ]_vars

\* C6 happens: a rule with an exclude list that does not match and no
\* include list was decided for a package and not skipped.
C6_Witness ==
  /\ pc = "skipped"
  /\ ~IsWorkspaceScope(contexts[cur])
  /\ rules[1].includePackages = Undefined
  /\ rules[1].excludePackages = Some(<<"root", "pkg2">>)
  /\ getName(contexts[cur].dir) = "pkg1"
  /\ lastSkip = Some(FALSE)

\* C11: with paths omitted and cwd inside the workspace but not its root,
\* the one checkPackage call of the run is for a context created for cwd;
\* workspaceContext is never checked or finished and no other context exists.
C11_SinglePackage ==
  (paths = Undefined /\ workspaceDir # Undefined /\ workspaceDir # Some(cwd)) =>
    LET calls == PackageCalls
        e == LastEvent
    IN  /\ Len(calls) <= 1
        /\ Len(contexts) <= 2
        /\ contexts[1].finished = 0 /\ ~contexts[1].marked
        /\ (log # <<>> /\ e.ev # "validate" /\ e.ev # "validateThrew") =>
             /\ e.pos = 1 /\ e.ctx = 2
             /\ contexts[2].dir = cwd
             /\ ~IsWorkspaceScope(contexts[2])
        /\ Returned => Len(calls) = 1 /\ contexts[2].finished = 1

\* C11 happens: a run started in a package directory returned after a rule
\* was checked there.
C11_Witness ==
  /\ Returned
  /\ paths = Undefined /\ cwd = PackageDir(1)
  /\ EventsOf({"call"}) # {}

\* C12: finish() is called once on a scope in a run, after every rule was
\* processed for it: no context is finished twice, a finish() comes when the
\* call's rules were all skipped or checked to completion, and a run that
\* returns has finished every checked context once.
C12_FinishOncePerScope ==
  /\ \A c \in DOMAIN contexts : contexts[c].finished <= 1
  /\ (log # <<>> /\ LastEvent.ev = "finish") =>
       \A r \in DOMAIN rules :
         \E j \in EventsOf({"skip", "settle"}) :
           log[j].pos = LastEvent.pos /\ log[j].rule = r
  /\ Returned =>
       \A k \in DOMAIN PackageCalls : contexts[PackageCalls[k].ctx].finished = 1

Rejected == pc = "rejected"

\* C13: a rule check that raises ends the run: when the awaited check is
\* rejected nothing is recorded in any context by it, the next step is
\* check() rejecting with no value returned, the stats map and the contexts
\* left as they are, and nothing follows: the check is not invoked again, no
\* other rule or scope is taken up.
C13_RaisingCheckAbortsRun ==
  [][ /\ (awaited.state = "pending" /\ awaited'.state = "rejected") =>
           /\ pc' = "await"
           /\ contexts' = contexts
           /\ stats' = stats
      /\ awaited.state = "rejected" =>
           /\ pc = "await" /\ pc' = "rejected"
           /\ result' = Undefined
           /\ log' = log /\ contexts' = contexts /\ stats' = stats
           /\ inflight' = {}
           /\ Cardinality({ i \in EventsOf({"call"}) :
                  Call(log[i].pos, log[i].ctx, log[i].rule) = awaited.call }) = 1 ]_vars

\* C13 happens: check() was rejected by the check of the second rule of the
\* second scope, after earlier checks had resolved.
C13_Witness ==
  /\ Rejected
  /\ awaited.state = "rejected"
  /\ awaited.call.pos = 2 /\ awaited.call.rule = 2
  /\ LastEvent.ev = "settle"
  /\ Cardinality(EventsOf({"call"})) >= 2

\* Whether rule r is to be skipped for context c, from the three steps of
\* the skip decision.
SkipExpected(c, r) ==
  \/ ~r.includeWorkspaceRoot /\ IsWorkspaceScope(c)
  \/ r.excludePackages # Undefined
       /\ matchesAnyGlob(getName(c.dir), Get(r.excludePackages))
  \/ r.includePackages # Undefined
       /\ ~matchesAnyGlob(getName(c.dir), Get(r.includePackages))

Invoked(p, r) ==
  Cardinality({ i \in EventsOf({"call"}) : log[i].pos = p /\ log[i].rule = r })

\* C14: in a run that returns, whatever failures were recorded, each rule's
\* check was invoked once for each checkPackage call whose context it is not
\* to be skipped for, and never for the others.
C14_FailuresDoNotStopTheRun ==
  Returned =>
    LET calls == PackageCalls
    IN  \A k \in DOMAIN calls : \A r \in DOMAIN rules :
          Invoked(k, r) =
            IF SkipExpected(contexts[calls[k].ctx], rules[r]) THEN 0 ELSE 1

\* C14 happens: a run returned false with a failure recorded in the first
\* scope: both rules were checked there and the second scope was checked
\* after it.
C14_Witness ==
  /\ Returned /\ result = Some(FALSE)
  /\ Len(PackageCalls) = 2
  /\ contexts[PackageCalls[1].ctx].marked
  /\ PackageCalls[1].ctx # PackageCalls[2].ctx
  /\ Invoked(1, 1) = 1 /\ Invoked(1, 2) = 1 /\ Invoked(2, 1) = 1

Validated(r) ==
  Cardinality({ i \in EventsOf({"validate", "validateThrew"}) : log[i].rule = r })

\* C15: every rule's options are validated once in a run, before the first
\* checkPackage call: a validation is the first one of its rule and comes
\* before every checkPackage call; when a checkPackage call is made and when
\* the run returns, each rule has been validated exactly once, however many
\* calls there are.
C15_ValidatedOncePerRun ==
  /\ (log # <<>> /\ LastEvent.ev \in {"validate", "validateThrew"}) =>
       /\ Validated(LastEvent.rule) = 1
       /\ PackageCalls = <<>>
  /\ ((log # <<>> /\ LastEvent.ev = "checkPackage") \/ Returned) =>
       \A r \in DOMAIN rules : Validated(r) = 1

\* C15 happens: a run over the whole workspace returned with the second of
\* two rules validated once.
C15_Witness ==
  /\ Returned
  /\ Len(rules) = 2
  /\ Len(PackageCalls) = MaxPackages + 1
  /\ Validated(2) = 1

Occurrences(seq, x) == Cardinality({ i \in DOMAIN seq : seq[i] = x })

\* C16: once the report has run, each printStats hook that some rule
\* carries has been invoked exactly once, also when several rules share it,
\* and nothing else has been invoked; without reportStats none is invoked.
C16_PrintStatsOncePerHook ==
  /\ reportStats = Some(TRUE) =>
       /\ \A i \in DOMAIN rules :
            rules[i].printStats # Undefined =>
              Occurrences(printed, Get(rules[i].printStats)) = 1
       /\ \A j \in DOMAIN printed :
            \E i \in DOMAIN rules : rules[i].printStats = Some(printed[j])
  /\ reportStats # Some(TRUE) => printed = <<>>

\* C16 happens: the report ran over two rules sharing one hook.
C16_Witness ==
  /\ reportStats = Some(TRUE)
  /\ Len(rules) = 2
  /\ rules[1] # rules[2]
  /\ rules[1].printStats = Some("statsF") /\ rules[2].printStats = Some("statsF")
  /\ printed = <<"statsF">>

\* totalTime of the entry n of the stats map perRule, 0 while there is none.
TotalTime(perRule, n) ==
  IF n \in DOMAIN perRule THEN perRule[n].totalTime ELSE 0

\* C17 as stated: in every step the totalTime of every entry is at least
\* what it was before the step.
C17_TotalTimeNeverDecreases ==
  [][ \A n \in DOMAIN stats : stats'[n].totalTime >= stats[n].totalTime ]_vars

\* C17 amended: no entry is ever removed; totalTime does not decrease in any
\* step but the one that starts timing a check that is then awaited (lines
\* 168-177), and when that check has resolved and timing ends (line 178) it
\* is at least what it was before the invocation began.
C17_TotalTimeGrowsAcrossInvocations ==
  [][ /\ DOMAIN stats \subseteq DOMAIN stats'
      /\ \A n \in DOMAIN stats' :
           /\ ~(pc = "rule" /\ pc' = "await") =>
                stats'[n].totalTime >= TotalTime(stats, n)
           /\ (pc = "await" /\ pc' = "rule" /\ Get(timed).name = n) =>
                stats'[n].totalTime >= Get(timed).totalTime ]_vars

\* C17 happens: a check invoked when the clock was past 0 has resolved and
\* its timing has ended.
C17_Witness ==
  /\ pc = "rule" /\ ri = 2
  /\ log # <<>> /\ LastEvent.ev = "settle" /\ LastEvent.rule = 2
  /\ now = MaxClock
  /\ \E i \in EventsOf({"settle"}) : log[i].pos = LastEvent.pos /\ log[i].rule = 1

\* C18: when every invoked check settles, check() comes to its end: it
\* returns, or is rejected by a missing workspace, a validator or a check
\* that threw.  While the awaited check is pending the run hangs on it: the
\* only step there is, is that check settling, so no rule or scope is taken
\* up and check() does not return before.
C18_EndsUnlessACheckHangs ==
  /\ <>(Returned \/ Rejected)
  /\ [](Rejected =>
          \/ workspaceDir = Undefined
          \/ EventsOf({"validateThrew"}) # {}
          \/ awaited.state = "rejected")
  /\ [][ (pc = "await" /\ awaited.state = "pending") =>
           /\ pc' = "await" /\ result' = Undefined
           /\ awaited'.call = awaited.call /\ awaited'.state # "pending"
           /\ inflight' = {}
           /\ log' = Append(log, Event("settle", awaited.call.pos,
                                       awaited.call.ctx, awaited.call.rule)) ]_vars

\* C18 happens: a run over several scopes in which checks were awaited has
\* returned.
C18_Witness ==
  /\ Returned
  /\ Len(PackageCalls) >= 2
  /\ Cardinality(EventsOf({"settle"})) >= 2

\* C19: every entry of the stats map has executions >= 1, in every state,
\* also while its first invocation is being timed or awaited, so the
\* average the report computes never divides by zero.
C19_EntriesHaveExecutions ==
  \A n \in DOMAIN stats :
    /\ stats[n].executions >= 1
    /\ stats[n].name = n

\* C19 happens: the first check of a rule is awaited, its entry just made.
C19_Witness ==
  /\ pc = "await" /\ awaited.state = "pending"
  /\ DOMAIN stats = {"ruleC"}
  /\ stats["ruleC"].executions = 1

\* C20: with paths an empty list no scope is checked: no checkPackage call,
\* no rule taken up or checked, no finish(), no context created, an empty
\* stats map; check() returns true, and is rejected only by a missing
\* workspace or a validator that threw.
C20_EmptyPathsCheckNothing ==
  paths = Some(<<>>) =>
    /\ EventsOf({"checkPackage", "skip", "call", "settle", "finish"}) = {}
    /\ Len(contexts) <= 1
    /\ \A c \in DOMAIN contexts : contexts[c].finished = 0
    /\ DOMAIN stats = {}
    /\ packagesChecked = 0
    /\ Returned => result = Some(TRUE)
    /\ Rejected => workspaceDir = Undefined \/ EventsOf({"validateThrew"}) # {}

\* C20 happens: check() was called at the workspace root with rules and an
\* empty paths, and returned.
C20_Witness ==
  /\ Returned
  /\ paths = Some(<<>>)
  /\ cwd = WorkspaceDir
  /\ Len(rules) = MaxRules
  /\ result = Some(TRUE)

====
